---- MODULE Spec2Model ----
(***************************************************************************)
(* GOLFIN visual QA pipeline (QA/visual_qa.py): pixel_diff,                *)
(* compare_screens and generate_markdown_report as a state machine over    *)
(* the screenshot directories and the reports directory.                   *)
(*                                                                         *)
(* Numbers that the code rounds to two decimals are kept as integers in    *)
(* hundredths (95.0 is 9500).  Files are optional values: the empty set is *)
(* "no such file", a singleton holds the file's content.                   *)
(***************************************************************************)
EXTENDS Integers, Sequences, FiniteSets, TLC

VARIABLES
    unity_dir,      \* UNITY_DIR:  screen name -> optional file
    figma_dir,      \* FIGMA_DIR:  screen name -> optional file
    diff_images,    \* REPORTS_DIR/diff_<name>.png: screen name -> optional image
    snapshots,      \* REPORTS_DIR/qa_report_<stamp>.json: set of [stamp, content]
    latest_json,    \* REPORTS_DIR/qa_report_latest.json: optional content
    latest_md,      \* REPORTS_DIR/qa_report_latest.md: optional content
    pc,             \* position of the compare_screens call
    targets,        \* the list the loop of compare_screens walks
    i,              \* index in targets of the screen the loop is at
    results,        \* the results dict, in insertion order: Seq of [name, data]
    returned,       \* the report compare_screens returned last: optional
    clock,          \* the wall clock, in ticks, as last read by datetime.now()
    before          \* what the reports directory and inputs were when the
                    \* running (or last) call started: history for re-run claims

vars == <<unity_dir, figma_dir, diff_images, snapshots, latest_json, latest_md,
          pc, targets, i, results, returned, clock, before>>

(***************************************************************************)
(* Bounds of the model.                                                    *)
(***************************************************************************)
\* images with every possible mask are drawn on grids up to MaxDim x MaxDim
MaxDim == 3
\* the clock is read at ticks 1..MaxClock
MaxClock == 3
\* ticks per second of the clock: the report's timestamp has tick resolution,
\* the snapshot's file name has second resolution
TicksPerSecond == 2

(***************************************************************************)
(* Configuration, visual_qa.py:32-36.                                      *)
(***************************************************************************)
SCREEN_MAP == <<"LogoScreen", "SplashScreen", "LoadingScreen">>

Names == {SCREEN_MAP[k] : k \in 1..Len(SCREEN_MAP)}

(***************************************************************************)
(* Images.  A decoded RGBA image is its size <<width, height>> and its     *)
(* pixels: every pixel of `painted` (a set of <<row, column>>) has colour  *)
(* `paint`, every other pixel has colour `base`.                           *)
(***************************************************************************)
Black == <<0, 0, 0, 255>>
Red   == <<255, 0, 0, 255>>
\* mean channel distance to Black exactly 30, and just above 30
Dim30 == <<40, 40, 40, 255>>
Dim31 == <<41, 40, 40, 255>>

Pixels(size) == (0..(size[2] - 1)) \X (0..(size[1] - 1))

Image(size, base, paint, painted) ==
    [size |-> size, base |-> base,
     paint |-> IF painted = {} THEN base ELSE paint, painted |-> painted]

Solid(size, colour) == Image(size, colour, colour, {})

PixelAt(img, p) == IF p \in img.painted THEN img.paint ELSE img.base

\* file contents: a PNG that decodes to an image, or bytes that do not decode
Png(img) == [valid |-> TRUE, image |-> img]
Corrupt  == [valid |-> FALSE, image |-> Solid(<<0, 0>>, Black)]

(***************************************************************************)
(* Rounding.  Round2(num, den, up) is round(num / den, 2) in hundredths:   *)
(* the nearest hundredth.  When num / den lies exactly halfway between two *)
(* hundredths, the binary floating-point value the code rounds lies on one *)
(* side or the other of it, and the result is the hundredth below or the   *)
(* one above: `up` says which.                                             *)
(***************************************************************************)
Round2(num, den, up) ==
    LET q == (100 * num) \div den
        r == (100 * num) % den
    IN  IF 2 * r < den THEN q
        ELSE IF 2 * r > den THEN q + 1
        ELSE IF up THEN q + 1 ELSE q

\* num / den lies exactly halfway between two hundredths
Halfway(num, den) == 2 * ((100 * num) % den) = den

Abs(x) == IF x < 0 THEN 0 - x ELSE x

Min(S) == CHOOSE x \in S : \A y \in S : x <= y

Max(S) == CHOOSE x \in S : \A y \in S : x >= y

(***************************************************************************)
(* pixel_diff, visual_qa.py:157-219.                                       *)
(***************************************************************************)
\* Python compares the (width, height) tuples lexicographically
TupleLess(a, b) == a[1] < b[1] \/ (a[1] = b[1] /\ a[2] < b[2])

\* target = max(img1.size, img2.size), line 171
TargetSize(s1, s2) == IF TupleLess(s1, s2) THEN s2 ELSE s1

\* img.resize(target, Image.LANCZOS), lines 172-173.  Resizing to the image's
\* own size copies it; Lanczos resampling of a one-colour image gives that
\* colour at every pixel.  Images of any other content are only ever compared
\* at their own size in this model (see the image libraries below).
Resize(img, target) ==
    IF img.size = target THEN img ELSE Solid(target, img.base)

\* lines 168-173: the two images as they are compared
Normalized(img1, img2) ==
    IF img1.size # img2.size
    THEN LET target == TargetSize(img1.size, img2.size)
         IN  <<Resize(img1, target), Resize(img2, target)>>
    ELSE <<img1, img2>>

\* diff = np.abs(arr1 - arr2) at one pixel: the four channel distances, line 179
DiffAt(n, p) == [c \in 1..4 |-> Abs(PixelAt(n[1], p)[c] - PixelAt(n[2], p)[c])]

ChannelSum(d) == d[1] + d[2] + d[3] + d[4]

threshold == 30

\* diff_mask = diff.mean(axis=2) > threshold, line 186: the mean of four
\* channels exceeds the threshold iff their sum exceeds four times it
diff_mask(n) ==
    {p \in Pixels(n[1].size) : ChannelSum(DiffAt(n, p)) > 4 * threshold}

\* the k-th pixel in row-major order
PixelNo(size, k) == <<k \div size[1], k % size[1]>>

RECURSIVE SumDiff(_, _, _)
\* the sum of all channel distances over the pixels numbered lo..(hi - 1),
\* by halves
SumDiff(n, lo, hi) ==
    IF hi <= lo THEN 0
    ELSE IF hi = lo + 1 THEN ChannelSum(DiffAt(n, PixelNo(n[1].size, lo)))
    ELSE LET mid == (lo + hi) \div 2
         IN  SumDiff(n, lo, mid) + SumDiff(n, mid, hi)

\* round(float(diff.mean()), 2), lines 180 and 212
MeanDiff(n, up) ==
    LET count == n[1].size[1] * n[1].size[2]
    IN  Round2(SumDiff(n, 0, count), 4 * count, up)

\* round(float(diff.max()), 2), lines 181 and 213
MaxDiff(n) ==
    100 * Max({DiffAt(n, p)[c] : p \in Pixels(n[1].size), c \in 1..4})

\* mutant: the fraction of differing pixels, not multiplied by 100
DiffPercent_Fraction(k, n, up) == Round2(k, n, up)

\* round(diff_percent, 2), lines 187 and 214, of k differing pixels out of n
DiffPercent(k, n, up) == Round2(100 * k, n, up)

\* mutant: the percentage itself, not its complement
MatchScore_Swapped(k, n, up) == Round2(100 * k, n, up)

\* round(100 - diff_percent, 2), line 218
MatchScore(k, n, up) == Round2(100 * (n - k), n, up)

\* mutant: any differing pixel is localized
Localized_Any(k, n) == k > 0

\* diff_percent > 0.5, line 196, on the unrounded value 100 * k / n
Localized(k, n) == 2 * 100 * k > n

\* mutant: the ends taken from the vectors without reversing them
BoundingBox_Unreversed(mask, size, area) ==
    LET rows == {p[1] : p \in mask}
        cols == {p[2] : p \in mask}
    IN  IF rows # {}
        THEN <<[y_start |-> Min(rows),
                y_end   |-> size[2] - Min(rows),
                x_start |-> Min(cols),
                x_end   |-> size[1] - Min(cols),
                area_percent |-> area]>>
        ELSE <<>>

\* lines 198-209: np.argmax of a boolean vector is the index of its first
\* True; the end is the length minus the argmax of the reversed vector
BoundingBox(mask, size, area) ==
    LET rows == {p[1] : p \in mask}
        cols == {p[2] : p \in mask}
    IN  IF rows # {}
        THEN <<[y_start |-> Min(rows),
                y_end   |-> size[2] - (size[2] - 1 - Max(rows)),
                x_start |-> Min(cols),
                x_end   |-> size[1] - (size[1] - 1 - Max(cols)),
                area_percent |-> area]>>
        ELSE <<>>

\* a variant that boxes every differing row on its own, top to bottom
Regions_PerRow(mask, size, up) ==
    LET k    == Cardinality(mask)
        n    == size[1] * size[2]
        rows == {p[1] : p \in mask}
        nth(j) == CHOOSE r \in rows : Cardinality({q \in rows : q < r}) = j - 1
    IN  IF Localized(k, n)
        THEN [j \in 1..Cardinality(rows) |->
                BoundingBox({p \in mask : p[1] = nth(j)}, size,
                            DiffPercent(k, n, up))[1]]
        ELSE <<>>

\* lines 194-209
Regions(mask, size, up) ==
    LET k == Cardinality(mask)
        n == size[1] * size[2]
    IN  IF Localized(k, n) THEN BoundingBox(mask, size, DiffPercent(k, n, up))
        ELSE <<>>

Clip(x) == IF x > 255 THEN 255 ELSE x

\* np.uint8(np.clip(diff * 3, 0, 255)), line 190
DiffImage(n) ==
    [p \in Pixels(n[1].size) |-> [c \in 1..4 |-> Clip(3 * DiffAt(n, p)[c])]]

\* mutant: the diff image named after the time of the run
pixel_diff_stamped(img1_file, img2_file, stem, fp) ==
    LET n    == Normalized(img1_file.image, img2_file.image)
        size == n[1].size
        mask == diff_mask(n)
        k    == Cardinality(mask)
        cnt  == size[1] * size[2]
    IN  [mean_diff    |-> MeanDiff(n, fp.mean),
         max_diff     |-> MaxDiff(n),
         diff_percent |-> DiffPercent(k, cnt, fp.percent),
         diff_image   |-> <<"diff", stem, clock>>,
         resolution   |-> size,
         regions      |-> Regions(mask, size, fp.percent),
         match_score  |-> MatchScore(k, cnt, fp.score)]

\* the dict pixel_diff returns, lines 211-219, for two decodable files
pixel_diff(img1_file, img2_file, stem, fp) ==
    LET n    == Normalized(img1_file.image, img2_file.image)
        size == n[1].size
        mask == diff_mask(n)
        k    == Cardinality(mask)
        cnt  == size[1] * size[2]
    IN  [mean_diff    |-> MeanDiff(n, fp.mean),
         max_diff     |-> MaxDiff(n),
         diff_percent |-> DiffPercent(k, cnt, fp.percent),
         diff_image   |-> <<"diff", stem>>,
         resolution   |-> size,
         regions      |-> Regions(mask, size, fp.percent),
         match_score  |-> MatchScore(k, cnt, fp.score)]

\* the ways the three roundings of lines 212, 214 and 218 can fall for two
\* files: a direction is open only where the value lies exactly halfway
FloatOutcomes(img1_file, img2_file) ==
    LET n   == Normalized(img1_file.image, img2_file.image)
        cnt == n[1].size[1] * n[1].size[2]
        k   == Cardinality(diff_mask(n))
    IN  {fp \in [mean : BOOLEAN, percent : BOOLEAN, score : BOOLEAN] :
           /\ fp.mean => Halfway(SumDiff(n, 0, cnt), 4 * cnt)
           /\ fp.percent => Halfway(100 * k, cnt)
           /\ fp.score => Halfway(100 * (cnt - k), cnt)}

\* Image.open(...).convert("RGBA") of lines 165-166 succeeds for both files
Decodes(img1_file, img2_file) == img1_file.valid /\ img2_file.valid

(***************************************************************************)
(* The report, visual_qa.py:267-278 and 297-332.                           *)
(***************************************************************************)
\* mutant: the dict rebound to the one new entry
Put_Replace(dict, name, data) == <<[name |-> name, data |-> data]>>

\* results[name] = data on a dict: a new key is appended, an old key keeps
\* its place and takes the new value
Put(dict, name, data) ==
    IF \E k \in 1..Len(dict) : dict[k].name = name
    THEN [k \in 1..Len(dict) |->
            IF dict[k].name = name THEN [name |-> name, data |-> data]
            ELSE dict[k]]
    ELSE Append(dict, [name |-> name, data |-> data])

\* r.get("match_score", 0)
Score(data) == IF "match_score" \in DOMAIN data THEN data.match_score ELSE 0

\* "status" in r
HasStatus(data) == "status" \in DOMAIN data

\* mutant: 95.0 itself taken as passing
IsPassing_Inclusive(score) == score >= 9500

\* the three bands of lines 273-275, on hundredths
IsPassing(score) == score > 9500

IsWarning(score) == 8000 < score /\ score <= 9500

IsFailing(score) == score <= 8000

\* lines 271-277
Summary(dict) ==
    LET at == 1..Len(dict)
    IN  [total   |-> Len(dict),
         passing |-> Cardinality({k \in at : IsPassing(Score(dict[k].data))}),
         warning |-> Cardinality({k \in at : IsWarning(Score(dict[k].data))}),
         failing |-> Cardinality({k \in at : IsFailing(Score(dict[k].data))}),
         missing |-> Cardinality({k \in at : HasStatus(dict[k].data)})]

\* datetime.now().isoformat(), line 269: the clock reading at tick resolution
IsoFormat(t) == [iso |-> t]

\* datetime.now().strftime('%Y%m%d_%H%M%S'), line 280: second resolution
StampOf(t) == t \div TicksPerSecond

\* lines 268-278
Report(t, dict) ==
    [timestamp |-> IsoFormat(t), screens |-> dict, summary |-> Summary(dict)]

\* json.dumps(report, indent=2), lines 281 and 286
JsonDumps(report) == [format |-> "json", indent |-> 2, value |-> report]

\* the status glyph of lines 264 and 318
Emoji(score) ==
    IF score > 9500 THEN "green" ELSE IF score > 8000 THEN "yellow" ELSE "red"

\* one table row, lines 313-319
Row(entry) ==
    IF HasStatus(entry.data)
    THEN [name |-> entry.name, status |-> entry.data.status]
    ELSE [name  |-> entry.name,
          match |-> Score(entry.data),
          diff  |-> IF "diff_percent" \in DOMAIN entry.data
                    THEN entry.data.diff_percent ELSE 0,
          emoji |-> Emoji(Score(entry.data))]

\* generate_markdown_report, lines 297-332: the header block, one row per
\* screen in dict order, and the fixed guidance text
generate_markdown_report(report) ==
    [title     |-> "# GOLFIN Visual QA Report",
     generated |-> report.timestamp,
     screens   |-> <<report.summary.total, report.summary.passing,
                     report.summary.warning, report.summary.failing>>,
     rows      |-> [k \in 1..Len(report.screens) |-> Row(report.screens[k])],
     guidance  |-> "## How to Fix"]

\* hashlib.md5(bytes).hexdigest()[:12], lines 257-258
Md5Prefix(file) == [md5_12 |-> file]

\* the path of a screen's image in a directory, lines 237-238
PathOf(dir, screen_name) == <<dir, screen_name>>

TheFile(slot) == CHOOSE f \in slot : TRUE

\* lines 252-258: the result of pixel_diff with the paths and hashes added
Compared(screen_name, unity_file, figma_file, fp) ==
    LET diff == pixel_diff(unity_file, figma_file, screen_name, fp)
    IN  [mean_diff    |-> diff.mean_diff,
         max_diff     |-> diff.max_diff,
         diff_percent |-> diff.diff_percent,
         diff_image   |-> diff.diff_image,
         resolution   |-> diff.resolution,
         regions      |-> diff.regions,
         match_score  |-> diff.match_score,
         unity_path   |-> PathOf("Unity", screen_name),
         figma_path   |-> PathOf("Figma", screen_name),
         unity_hash   |-> Md5Prefix(unity_file),
         figma_hash   |-> Md5Prefix(figma_file)]

(***************************************************************************)
(* compare_screens, visual_qa.py:226-294, one action per step of the call. *)
(***************************************************************************)
Running == pc = "loop"

InLoop == pc = "loop" /\ i <= Len(targets)

\* lines 226-235: the call starts; screens = <<>> stands for None (or an
\* empty list, which Python also takes as false)
compare_screens(screens) ==
    /\ ~Running
    /\ clock < MaxClock
    /\ pc' = "loop"
    /\ targets' = IF screens # <<>> THEN screens ELSE SCREEN_MAP
    /\ i' = 1
    /\ results' = <<>>
    /\ returned' = {}
    /\ before' = [json      |-> latest_json,
                  md        |-> latest_md,
                  targets   |-> targets,
                  done      |-> pc = "done",
                  unchanged |-> ~before.dirty,
                  dirty     |-> FALSE]
    /\ UNCHANGED <<unity_dir, figma_dir, diff_images, snapshots, latest_json,
                   latest_md, clock>>

\* a variant that files the screen with a score of its own
MissingUnity_Scored ==
    /\ InLoop
    /\ unity_dir[targets[i]] = {}
    /\ results' = Put(results, targets[i],
                      [status |-> "missing_unity", match_score |-> 0])
    /\ i' = i + 1
    /\ UNCHANGED <<unity_dir, figma_dir, diff_images, snapshots, latest_json,
                   latest_md, pc, targets, returned, clock, before>>

\* lines 240-243
MissingUnity ==
    /\ InLoop
    /\ unity_dir[targets[i]] = {}
    /\ results' = Put(results, targets[i], [status |-> "missing_unity"])
    /\ i' = i + 1
    /\ UNCHANGED <<unity_dir, figma_dir, diff_images, snapshots, latest_json,
                   latest_md, pc, targets, returned, clock, before>>

\* a variant that looks for the reference image without having looked for
\* the captured one
MissingFigma_Unordered ==
    /\ InLoop
    /\ figma_dir[targets[i]] = {}
    /\ results' = Put(results, targets[i], [status |-> "missing_figma"])
    /\ i' = i + 1
    /\ UNCHANGED <<unity_dir, figma_dir, diff_images, snapshots, latest_json,
                   latest_md, pc, targets, returned, clock, before>>

\* lines 244-247
MissingFigma ==
    /\ InLoop
    /\ unity_dir[targets[i]] # {}
    /\ figma_dir[targets[i]] = {}
    /\ results' = Put(results, targets[i], [status |-> "missing_figma"])
    /\ i' = i + 1
    /\ UNCHANGED <<unity_dir, figma_dir, diff_images, snapshots, latest_json,
                   latest_md, pc, targets, returned, clock, before>>

\* lines 249-260 with pixel_diff returning: the diff image is written
\* (line 192) and the record stored
CompareScreen ==
    /\ InLoop
    /\ unity_dir[targets[i]] # {}
    /\ figma_dir[targets[i]] # {}
    /\ LET name  == targets[i]
           unity == TheFile(unity_dir[name])
           figma == TheFile(figma_dir[name])
       IN  /\ Decodes(unity, figma)
           /\ diff_images' =
                [diff_images EXCEPT
                   ![name] = {DiffImage(Normalized(unity.image, figma.image))}]
           /\ \E fp \in FloatOutcomes(unity, figma) :
                 results' = Put(results, name, Compared(name, unity, figma, fp))
    /\ i' = i + 1
    /\ UNCHANGED <<unity_dir, figma_dir, snapshots, latest_json, latest_md,
                   pc, targets, returned, clock, before>>

\* lines 165-166 raising inside line 252: nothing in compare_screens catches
\* the exception, so the call ends there
DecodeError ==
    /\ InLoop
    /\ unity_dir[targets[i]] # {}
    /\ figma_dir[targets[i]] # {}
    /\ ~Decodes(TheFile(unity_dir[targets[i]]), TheFile(figma_dir[targets[i]]))
    /\ pc' = "aborted"
    /\ results' = <<>>
    /\ UNCHANGED <<unity_dir, figma_dir, diff_images, snapshots, latest_json,
                   latest_md, targets, i, returned, clock, before>>

\* a variant that builds the report anew, from a later clock reading, for the
\* two latest files
SaveReport_Rebuilt ==
    /\ pc = "loop"
    /\ i > Len(targets)
    /\ \E t1 \in (clock + 1)..MaxClock, t2 \in (clock + 1)..MaxClock :
         /\ t1 <= t2
         /\ LET report == Report(t1, results)
                later  == Report(t2, results)
            IN  /\ snapshots' =
                     {f \in snapshots : f.stamp # StampOf(t2)}
                       \cup {[stamp |-> StampOf(t2), content |-> JsonDumps(report)]}
                /\ latest_json' = {JsonDumps(later)}
                /\ latest_md' = {generate_markdown_report(later)}
                /\ returned' = {report}
         /\ clock' = t2
    /\ pc' = "done"
    /\ UNCHANGED <<unity_dir, figma_dir, diff_images, targets, i, results,
                   before>>

\* lines 267-294, after the loop: the report is built from the clock reading
\* t1, written under the name of the later reading t2, written to the two
\* latest files, and returned
SaveReport ==
    /\ pc = "loop"
    /\ i > Len(targets)
    /\ \E t1 \in (clock + 1)..MaxClock, t2 \in (clock + 1)..MaxClock :
         /\ t1 <= t2
         /\ LET report == Report(t1, results)
            IN  /\ snapshots' =
                     {f \in snapshots : f.stamp # StampOf(t2)}
                       \cup {[stamp |-> StampOf(t2), content |-> JsonDumps(report)]}
                /\ latest_json' = {JsonDumps(report)}
                /\ latest_md' = {generate_markdown_report(report)}
                /\ returned' = {report}
         /\ clock' = t2
    /\ pc' = "done"
    /\ UNCHANGED <<unity_dir, figma_dir, diff_images, targets, i, results,
                   before>>

(***************************************************************************)
(* Image libraries: the inputs the specifications draw from.               *)
(***************************************************************************)
\* the first k pixels of an image, in row-major order
Prefix(size, k) == {PixelNo(size, j) : j \in 0..(k - 1)}

FrameSize == <<5, 4>>

\* a frame of 160 pixels: some counts of differing pixels are a percentage
\* exactly halfway between two hundredths (23 of 160 is 14.375)
HalfwaySize == <<16, 10>>

\* the Figma reference of a screen, and captures of it
Ref      == Solid(FrameSize, Black)
Faithful == Solid(FrameSize, Black)
OneOff   == Image(FrameSize, Black, Red, Prefix(FrameSize, 1))

GridSizes == (1..MaxDim) \X (1..MaxDim)

\* two sizes neither of which contains the other
PortraitSize  == <<100, 200>>
LandscapeSize == <<300, 100>>

\* a long one-row image, where a single pixel is about half a percent
RowSizes == {<<199, 1>>, <<339, 1>>}

\* the file slots of a screen with an absent or undecodable file
FaultySlots ==
    {<<{Png(Faithful)}, {}>>, <<{}, {Png(Ref)}>>, <<{}, {}>>,
     <<{Corrupt}, {Png(Ref)}>>, <<{Png(Faithful)}, {Corrupt}>>}

\* the contents a screen's two files take in the batch specification
BatchUnity == {{}, {Corrupt}, {Png(Faithful)}, {Png(OneOff)}}
BatchFigma == {{}, {Corrupt}, {Png(Ref)}}

\* the lists a caller passes to compare_screens: None, every list of
\* distinct screen names in every order, and a name given twice
Perms(S) ==
    {q \in UNION {[1..n -> S] : n \in 1..Cardinality(S)} :
        \A a, b \in 1..Len(q) : a # b => q[a] # q[b]}

Requests == {<<>>} \cup Perms(Names) \cup {<<s, s>> : s \in Names}

NoHistory ==
    [json |-> {}, md |-> {}, targets |-> <<>>, done |-> FALSE,
     unchanged |-> FALSE, dirty |-> FALSE]

\* everything but the two screenshot directories and the clock, before the
\* first call: an empty reports directory
Fresh ==
    /\ diff_images = [s \in Names |-> {}]
    /\ snapshots = {}
    /\ latest_json = {}
    /\ latest_md = {}
    /\ pc = "idle"
    /\ targets = <<>>
    /\ i = 1
    /\ results = <<>>
    /\ returned = {}
    /\ before = NoHistory

(***************************************************************************)
(* The environment: the Unity capture tool and export_figma_screens write  *)
(* the screenshot directories between calls of compare_screens.            *)
(***************************************************************************)
Builds == {"faithful", "regressed", "truncated"}

\* what a build of the game renders for a screen
CaptureOf(build, screen_name) ==
    IF screen_name = SCREEN_MAP[1] /\ build = "regressed" THEN Png(OneOff)
    ELSE IF screen_name = SCREEN_MAP[1] /\ build = "truncated" THEN Corrupt
    ELSE Png(Faithful)

\* Tools -> QA -> Capture All Screens
CaptureAll(build) ==
    /\ ~Running
    /\ unity_dir' = [s \in Names |-> {CaptureOf(build, s)}]
    /\ unity_dir' # unity_dir
    /\ before' = [before EXCEPT !.dirty = TRUE]
    /\ UNCHANGED <<figma_dir, diff_images, snapshots, latest_json, latest_md,
                   pc, targets, i, results, returned, clock>>

\* export_figma_screens, lines 61-150: every exported screen's PNG is written
\* to FIGMA_DIR (line 136); screens = <<>> stands for None, all of SCREEN_MAP
export_figma_screens(screens) ==
    /\ ~Running
    /\ figma_dir' =
         [s \in Names |->
            IF screens = <<>> \/ \E k \in 1..Len(screens) : screens[k] = s
            THEN {Png(Ref)} ELSE figma_dir[s]]
    /\ figma_dir' # figma_dir
    /\ before' = [before EXCEPT !.dirty = TRUE]
    /\ UNCHANGED <<unity_dir, diff_images, snapshots, latest_json, latest_md,
                   pc, targets, i, results, returned, clock>>

(***************************************************************************)
(* Specifications.                                                         *)
(***************************************************************************)
Step == MissingUnity \/ MissingFigma \/ CompareScreen \/ DecodeError \/ SaveReport

\* Spec: a fresh checkout; captures, exports and compare runs in any order
Init ==
    /\ unity_dir = [s \in Names |-> {}]
    /\ figma_dir = [s \in Names |-> {}]
    /\ clock = 0
    /\ Fresh

\* the arguments main passes (lines 400, 408, 411): None, or one screen
CliScreens == {<<>>, <<SCREEN_MAP[1]>>}

Next ==
    \/ \E screens \in CliScreens : compare_screens(screens)
    \/ Step
    \/ \E build \in Builds : CaptureAll(build)
    \/ \E screens \in CliScreens : export_figma_screens(screens)

Spec == Init /\ [][Next]_vars

\* SpecBatch: one call of compare_screens with any list of names, over every
\* combination of present, absent and undecodable files
InitBatch ==
    /\ unity_dir \in [Names -> BatchUnity]
    /\ figma_dir \in [Names -> BatchFigma]
    /\ clock = MaxClock - 1
    /\ Fresh

NextBatch ==
    \/ \E screens \in Requests : compare_screens(screens)
    \/ Step

SpecBatch == InitBatch /\ [][NextBatch]_vars

\* SpecCli: one call for a single screen (main, lines 400 and 411, with
\* --screen), over the image library
OnlyFirst(slot) == [s \in Names |-> IF s = SCREEN_MAP[1] THEN slot ELSE {}]

\* the first screen's captured image is u and its reference image is f
Holds(u, f) ==
    unity_dir = OnlyFirst({Png(u)}) /\ figma_dir = OnlyFirst({Png(f)})

\* the image library: the absent and undecodable files; every mask on every
\* small grid; a run of k pixels of one colour on the frame and on a long row,
\* for every k; one-colour images of different sizes
InitCli ==
    /\ \/ \E slots \in FaultySlots :
            unity_dir = OnlyFirst(slots[1]) /\ figma_dir = OnlyFirst(slots[2])
       \/ \E size \in GridSizes : \E mask \in SUBSET Pixels(size) :
            Holds(Image(size, Black, Red, mask), Solid(size, Black))
       \/ \E paint \in {Red, Dim30, Dim31} : \E k \in 0..(FrameSize[1] * FrameSize[2]) :
            Holds(Image(FrameSize, Black, paint, Prefix(FrameSize, k)),
                  Solid(FrameSize, Black))
       \/ \E k \in 0..(HalfwaySize[1] * HalfwaySize[2]) :
            Holds(Image(HalfwaySize, Black, Red, Prefix(HalfwaySize, k)),
                  Solid(HalfwaySize, Black))
       \/ \E size \in RowSizes : \E k \in 0..size[1] :
            Holds(Image(size, Black, Red, Prefix(size, k)), Solid(size, Black))
       \/ \E s1 \in GridSizes : \E s2 \in GridSizes \ {s1} : \E colour \in {Black, Red} :
            Holds(Solid(s1, colour), Solid(s2, Black))
       \/ \E pair \in {<<PortraitSize, LandscapeSize>>, <<LandscapeSize, PortraitSize>>} :
            Holds(Solid(pair[1], Black), Solid(pair[2], Black))
    /\ clock = MaxClock - 1
    /\ Fresh

NextCli ==
    \/ compare_screens(<<SCREEN_MAP[1]>>)
    \/ Step

SpecCli == InitCli /\ [][NextCli]_vars

(***************************************************************************)
(* Properties.                                                             *)
(***************************************************************************)
\* the positions of a report's entries that are comparison records
ComparedAt(report) ==
    {k \in 1..Len(report.screens) : ~HasStatus(report.screens[k].data)}

\* the positions of a report's entries that are Missing* records
MissingAt(report) ==
    {k \in 1..Len(report.screens) : HasStatus(report.screens[k].data)}

\* the decoded images a compared entry of the current directories came from
InputsOf(entry) ==
    <<TheFile(unity_dir[entry.name]).image, TheFile(figma_dir[entry.name]).image>>

\* the above-threshold pixels of a compared entry, and the pixel count
MaskOf(entry) == diff_mask(Normalized(InputsOf(entry)[1], InputsOf(entry)[2]))

AreaOf(entry) == entry.data.resolution[1] * entry.data.resolution[2]

\* C1 (as claimed): in every report, the screens with a missing image are
\* counted in `missing` and the passing, warning and failing counts together
\* count exactly the compared screens.
C1_MissingNotBucketed ==
    \A report \in returned :
        /\ report.summary.missing = Cardinality(MissingAt(report))
        /\ report.summary.passing + report.summary.warning
             + report.summary.failing = Cardinality(ComparedAt(report))

\* a single-screen report shows its compared screen in the given band: that
\* summary count is 1, the other two are 0, and the table row has the glyph
ShownAs(report, band, glyph) ==
    /\ \A b \in {"passing", "warning", "failing"} :
          report.summary[b] = IF b = band THEN 1 ELSE 0
    /\ \A md \in latest_md : md.rows[1].emoji = glyph

SingleCompared(report) == Len(report.screens) = 1 /\ ComparedAt(report) = {1}

\* C2 (as claimed): a compared screen with match_score 95.0 is passing, one
\* between 80.0 and 95.0 is warning, one with 80.0 is failing.
C2_Claimed ==
    \A report \in returned :
        SingleCompared(report) =>
            LET score == report.screens[1].data.match_score
            IN  /\ score = 9500 => ShownAs(report, "passing", "green")
                /\ (8000 < score /\ score < 9500) => ShownAs(report, "warning", "yellow")
                /\ score = 8000 => ShownAs(report, "failing", "red")

\* C2 (amended): a compared screen with match_score above 95.0 is passing;
\* one with exactly 95.0, or between 80.0 and 95.0, is warning; one with 80.0
\* or less is failing; in the summary counts and in the glyph alike.
C2_Bands ==
    \A report \in returned :
        SingleCompared(report) =>
            LET score == report.screens[1].data.match_score
            IN  /\ score > 9500 => ShownAs(report, "passing", "green")
                /\ score = 9500 => ShownAs(report, "warning", "yellow")
                /\ (8000 < score /\ score < 9500) => ShownAs(report, "warning", "yellow")
                /\ score = 8000 => ShownAs(report, "failing", "red")
                /\ score < 8000 => ShownAs(report, "failing", "red")

\* a report of one compared screen whose match_score is exactly 95.0
C2_Witness ==
    \E report \in returned :
        SingleCompared(report) /\ report.screens[1].data.match_score = 9500

\* C3 (as claimed): when the two images differ in size, the comparison
\* resolution is the larger width and the larger height, each axis on its own.
C3_PerAxisMax ==
    \A report \in returned : \A k \in ComparedAt(report) :
        LET entry == report.screens[k]
            s1    == InputsOf(entry)[1].size
            s2    == InputsOf(entry)[2].size
        IN  s1 # s2 =>
              entry.data.resolution = <<Max({s1[1], s2[1]}), Max({s1[2], s2[2]})>>

\* C4 (as claimed): an emitted region runs from the first to the last
\* differing row and from the first to the last differing column.
C4_Claimed ==
    \A report \in returned : \A k \in ComparedAt(report) :
        LET entry == report.screens[k]
            mask  == MaskOf(entry)
        IN  \A j \in 1..Len(entry.data.regions) :
              LET box == entry.data.regions[j]
              IN  /\ box.y_start = Min({p[1] : p \in mask})
                  /\ box.y_end   = Max({p[1] : p \in mask})
                  /\ box.x_start = Min({p[2] : p \in mask})
                  /\ box.x_end   = Max({p[2] : p \in mask})

\* C4 (amended): an emitted region starts at the first differing row and
\* column and ends one past the last differing row and column: the rows
\* y_start..y_end-1 and columns x_start..x_end-1 are the minimal rectangle
\* enclosing every above-threshold pixel.
C4_HalfOpenBox ==
    \A report \in returned : \A k \in ComparedAt(report) :
        LET entry == report.screens[k]
            mask  == MaskOf(entry)
        IN  \A j \in 1..Len(entry.data.regions) :
              LET box == entry.data.regions[j]
              IN  /\ box.y_start = Min({p[1] : p \in mask})
                  /\ box.y_end   = Max({p[1] : p \in mask}) + 1
                  /\ box.x_start = Min({p[2] : p \in mask})
                  /\ box.x_end   = Max({p[2] : p \in mask}) + 1
                  /\ \A p \in mask :
                        /\ box.y_start <= p[1] /\ p[1] < box.y_end
                        /\ box.x_start <= p[2] /\ p[2] < box.x_end

\* a region strictly inside the frame on every side
C4_Witness ==
    \E report \in returned : \E k \in ComparedAt(report) :
        LET data == report.screens[k].data
        IN  /\ Len(data.regions) = 1
            /\ data.regions[1].y_start > 0 /\ data.regions[1].x_start > 0
            /\ data.regions[1].y_end < data.resolution[2]
            /\ data.regions[1].x_end < data.resolution[1]

\* the call before this one completed, the screenshot directories were not
\* written in between, and this call completed for the same screen names
RerunUnchanged ==
    /\ pc = "done"
    /\ before.done
    /\ before.unchanged
    /\ before.targets = targets

\* C5 (as claimed): a second run on unchanged inputs leaves both latest files
\* with exactly the content the first run left.
C5_Claimed ==
    RerunUnchanged => latest_json = before.json /\ latest_md = before.md

\* C5 (amended): a second run on unchanged inputs leaves both latest files
\* with the content the first run left except for the run's own clock
\* reading (the JSON's timestamp and the markdown's Generated line): the
\* screens with their hashes, the summary, the table rows and the fixed text
\* are the same.
C5_SameButTimestamp ==
    RerunUnchanged =>
        \A json \in latest_json, old \in before.json, md \in latest_md, oldmd \in before.md :
            /\ json.value.screens = old.value.screens
            /\ json.value.summary = old.value.summary
            /\ json.format = old.format /\ json.indent = old.indent
            /\ [md EXCEPT !.generated = oldmd.generated] = oldmd

\* a second run on unchanged inputs that compared a screen, with the latest
\* JSON differing from the one the first run left
C5_Witness ==
    /\ RerunUnchanged
    /\ \E json \in latest_json : ComparedAt(json.value) # {}
    /\ latest_json # before.json
    /\ before.json # {}

\* C6: in every result of pixel_diff the rounded match_score and the rounded
\* diff_percent sum to 100 within 0.01.
C6_ScoresComplement ==
    \A report \in returned : \A k \in ComparedAt(report) :
        LET data == report.screens[k].data
        IN  Abs(data.match_score + data.diff_percent - 10000) <= 1

\* a result whose two rounded values do not sum to exactly 100
C6_Witness ==
    \E report \in returned : \E k \in ComparedAt(report) :
        LET data == report.screens[k].data
        IN  data.match_score + data.diff_percent # 10000

\* two images of the same size with the same colour at every pixel
SamePixels(pair) ==
    /\ pair[1].size = pair[2].size
    /\ \A p \in Pixels(pair[1].size) : PixelAt(pair[1], p) = PixelAt(pair[2], p)

\* C7: an image compared with an identical copy of itself gives
\* diff_percent 0, mean_diff 0, max_diff 0, match_score 100 and no region,
\* and the screen is classified as passing.
C7_IdenticalImages ==
    \A report \in returned :
        (SingleCompared(report) /\ SamePixels(InputsOf(report.screens[1]))) =>
            LET data == report.screens[1].data
            IN  /\ data.diff_percent = 0
                /\ data.mean_diff = 0
                /\ data.max_diff = 0
                /\ data.match_score = 10000
                /\ data.regions = <<>>
                /\ ShownAs(report, "passing", "green")

\* a report of one screen whose two images are identical
C7_Witness ==
    \E report \in returned :
        SingleCompared(report) /\ SamePixels(InputsOf(report.screens[1]))

\* C8 (as claimed): a result whose recorded diff_percent is at most 0.5 has
\* no region.
C8_Claimed ==
    \A report \in returned : \A k \in ComparedAt(report) :
        LET data == report.screens[k].data
        IN  data.diff_percent <= 50 => data.regions = <<>>

\* C8 (amended): a result whose recorded diff_percent is below 0.5, or whose
\* share of above-threshold pixels before rounding is at most 0.5 percent,
\* has no region.
C8_NoiseNotLocalized ==
    \A report \in returned : \A k \in ComparedAt(report) :
        LET entry == report.screens[k]
        IN  (\/ entry.data.diff_percent < 50
             \/ 200 * Cardinality(MaskOf(entry)) <= AreaOf(entry))
              => entry.data.regions = <<>>

\* a result with some above-threshold pixels, less than 0.5 percent of them
C8_Witness ==
    \E report \in returned : \E k \in ComparedAt(report) :
        LET data == report.screens[k].data
        IN  data.diff_percent > 0 /\ data.diff_percent < 50 /\ data.regions = <<>>

NamesOf(dict) == {dict[k].name : k \in 1..Len(dict)}

Requested == {targets[k] : k \in 1..Len(targets)}

\* C9: a screen with a missing image does not end the call: the loop goes on
\* to every later screen (the results hold exactly the screens walked so
\* far, once each), the call ends early only at a screen both of whose files
\* exist, and the report of a completed call has exactly one entry per
\* requested name and counts them in total.
C9_MissingDoesNotAbort ==
    /\ pc = "loop" =>
          /\ NamesOf(results) = {targets[k] : k \in 1..(i - 1)}
          /\ Len(results) = Cardinality(NamesOf(results))
    /\ pc = "aborted" =>
          unity_dir[targets[i]] # {} /\ figma_dir[targets[i]] # {}
    /\ pc = "done" =>
          \A report \in returned :
              /\ NamesOf(report.screens) = Requested
              /\ Len(report.screens) = Cardinality(Requested)
              /\ report.summary.total = Cardinality(Requested)

\* a completed call whose first screen had a missing image and whose later
\* screens were still processed, one of them compared
C9_Witness ==
    /\ pc = "done"
    /\ \E report \in returned :
          /\ Len(report.screens) = 3
          /\ HasStatus(report.screens[1].data)
          /\ ~HasStatus(report.screens[2].data)
          /\ HasStatus(report.screens[3].data)

\* C10 (as claimed): whenever a call has ended, also after meeting an
\* undecodable image, it has produced a report that holds an entry for every
\* requested screen.
C10_DecodeFailureRecorded ==
    pc \in {"done", "aborted"} =>
        /\ returned # {}
        /\ \A report \in returned : NamesOf(report.screens) = Requested

\* C11 (as claimed): over any sequence of runs, a timestamp-named report file
\* once written stays as it is: no later step removes it or changes its
\* content.
C11_SnapshotsImmutable ==
    [][\A f \in snapshots : f \in snapshots']_vars

\* the record a dict holds under a name
RecordOf(dict, name) ==
    dict[CHOOSE k \in 1..Len(dict) : dict[k].name = name].data

\* a screen one of whose two image files is absent
Lacking(name) == unity_dir[name] = {} \/ figma_dir[name] = {}

\* C12: every step of the loop that moves on from a screen leaves that screen
\* with one record and the other screens' records as they were; a screen with
\* an absent image gets a record that is only the status missing_unity or
\* missing_figma, and no diff image is written in that step; a screen gets a
\* comparison record only if both its image files exist, and its diff image
\* is then written.
C12_ScreenOutcome ==
    [][(InLoop /\ i' = i + 1) =>
          LET name == targets[i]
              data == RecordOf(results', name)
          IN  /\ Cardinality({k \in 1..Len(results') : results'[k].name = name}) = 1
              /\ \A k \in 1..Len(results) :
                    results[k].name # name => results'[k] = results[k]
              /\ Lacking(name) =>
                    /\ data \in {[status |-> "missing_unity"],
                                 [status |-> "missing_figma"]}
                    /\ diff_images' = diff_images
              /\ ~Lacking(name) =>
                    /\ ~HasStatus(data)
                    /\ "match_score" \in DOMAIN data
                    /\ diff_images'[name] # {}]_vars

\* a completed call over three screens: one without its captured image, one
\* without its reference image and one compared; only the compared one has a
\* diff image
C12_Witness ==
    /\ pc = "done"
    /\ \E a, b, c \in Names :
          /\ unity_dir[a] = {} /\ diff_images[a] = {}
          /\ unity_dir[b] # {} /\ figma_dir[b] = {} /\ diff_images[b] = {}
          /\ ~Lacking(c) /\ diff_images[c] # {}
          /\ \A report \in returned :
                /\ NamesOf(report.screens) = {a, b, c}
                /\ RecordOf(report.screens, a) = [status |-> "missing_unity"]
                /\ RecordOf(report.screens, b) = [status |-> "missing_figma"]
                /\ ~HasStatus(RecordOf(report.screens, c))

\* C13: once a call has completed, qa_report_latest.json has the content of
\* the timestamp-named report that call wrote, which is the report the call
\* returned, and qa_report_latest.md is the rendering of that report; a call
\* that has not completed leaves both latest files as the last completed call
\* left them, and before any call there are none.
C13_LatestIsLastRun ==
    /\ pc = "done" =>
          \E report \in returned : \E f \in snapshots :
              /\ f.stamp = StampOf(clock)
              /\ f.content = JsonDumps(report)
              /\ latest_json = {f.content}
              /\ latest_md = {generate_markdown_report(f.content.value)}
    /\ pc \in {"loop", "aborted"} =>
          latest_json = before.json /\ latest_md = before.md
    /\ pc = "idle" => latest_json = {} /\ latest_md = {}

\* a completed call after an earlier completed one: two timestamp-named
\* reports exist and the latest files are no longer those of the earlier call
C13_Witness ==
    /\ pc = "done"
    /\ before.done
    /\ Cardinality(snapshots) = 2
    /\ before.json # {} /\ latest_json # before.json
    /\ before.md # {} /\ latest_md # before.md

\* C14: every comparison record has a regions list of no or one entry,
\* however many separate groups of differing pixels the mask has.
C14_AtMostOneRegion ==
    \A report \in returned : \A k \in ComparedAt(report) :
        Len(report.screens[k].data.regions) \in {0, 1}

\* a comparison whose mask has differing pixels in two rows with a row of no
\* differing pixel between them, and whose regions list has one entry
C14_Witness ==
    \E report \in returned : \E k \in ComparedAt(report) :
        LET entry == report.screens[k]
            rows  == {p[1] : p \in MaskOf(entry)}
        IN  /\ Len(entry.data.regions) = 1
            /\ \E r \in rows : (r + 1) \notin rows /\ (r + 2) \in rows

\* the records of a dict follow the order of the two checks: a screen with
\* neither file is under missing_unity, and a screen under missing_figma has
\* its captured image and lacks its reference image
OrderedChecks(dict) ==
    \A k \in 1..Len(dict) :
        LET name == dict[k].name
            data == dict[k].data
        IN  /\ (unity_dir[name] = {} /\ figma_dir[name] = {}) =>
                  data = [status |-> "missing_unity"]
            /\ (HasStatus(data) /\ data.status = "missing_figma") =>
                  unity_dir[name] # {} /\ figma_dir[name] = {}

\* C15: a screen whose captured and reference images are both absent is
\* recorded as missing_unity, never as missing_figma; missing_figma is
\* recorded only when the captured image exists and the reference image does
\* not; in the records of the loop and in the report of a completed call.
C15_MissingChecksOrdered ==
    /\ OrderedChecks(results)
    /\ \A report \in returned : OrderedChecks(report.screens)

\* a completed call that met a screen with neither image and a screen with
\* only its captured image
C15_Witness ==
    /\ pc = "done"
    /\ \E report \in returned : \E a, b \in NamesOf(report.screens) :
          /\ unity_dir[a] = {} /\ figma_dir[a] = {}
          /\ RecordOf(report.screens, a).status = "missing_unity"
          /\ unity_dir[b] # {} /\ figma_dir[b] = {}
          /\ RecordOf(report.screens, b).status = "missing_figma"

====
